---- MODULE Spec2Model ----
(***************************************************************************)
(* The SVM anomaly-detection notebook (archive/svm_nimda_1min.ipynb) as a  *)
(* state machine: one action per code cell, executed top to bottom; an     *)
(* exception raised by a cell halts the run.  Library calls (pandas,       *)
(* scikit-learn, joblib) are modelled by their documented behaviour at the *)
(* call sites of the notebook.                                             *)
(***************************************************************************)
EXTENDS Integers, Sequences, FiniteSets, TLC

(***************************************************************************)
(* Bounds of the model (sizes of the input tables that are explored).      *)
(***************************************************************************)
MaxNormal == 7
MaxAnomaly == 2
MoreAnomaly == 3
MaxVal == 2
ExtraCols == 1
\* the binary exponent of the large and, negated, of the small real cells
MaxExp == 600

(***************************************************************************)
(* Literal constants of the notebook.                                      *)
(***************************************************************************)
K == 15
cv == 5
TestSizeNum == 3
TestSizeDen == 10

(***************************************************************************)
(* Generic helpers.                                                        *)
(***************************************************************************)
Min(a, b) == IF a < b THEN a ELSE b

RECURSIVE SumSeq(_)
SumSeq(s) == IF s = <<>> THEN 0 ELSE Head(s) + SumSeq(Tail(s))

RECURSIVE SelectIdx(_, _, _)
\* the indices i (ascending, from `from` on) of `s` with s[i] = v
SelectIdx(s, v, from) ==
    IF from > Len(s) THEN <<>>
    ELSE (IF s[from] = v THEN <<from>> ELSE <<>>) \o SelectIdx(s, v, from + 1)

Reverse(s) == [i \in 1..Len(s) |-> s[Len(s) + 1 - i]]

Range(s) == {s[i] : i \in 1..Len(s)}

(***************************************************************************)
(* Text: a string is a sequence of one-character strings, so that what     *)
(* the CSV reader does with a cell (type inference) can be computed.       *)
(***************************************************************************)
DigitChars == <<"0", "1", "2", "3", "4", "5", "6", "7", "8", "9">>

RECURSIVE Decimal(_)
\* str(n) for n >= 0
Decimal(n) ==
    IF n < 10 THEN <<DigitChars[n + 1]>>
    ELSE Decimal(n \div 10) \o <<DigitChars[(n % 10) + 1]>>

ClassCol == <<"c", "l", "a", "s", "s">>
TimestampCol == <<"t", "i", "m", "e", "s", "t", "a", "m", "p">>
Timestamp2Col == TimestampCol \o <<"2">>
UnnamedCol == <<"U", "n", "n", "a", "m", "e", "d", ":", " ", "0">>
FeatureHeader == <<"F", "e", "a", "t", "u", "r", "e">>

(***************************************************************************)
(* Python values that appear in a column of names.                         *)
(***************************************************************************)
PyStr(s) == [t |-> "str", v |-> s]
PyInt(n) == [t |-> "int", v |-> n]

(***************************************************************************)
(* float64 values.  A finite non-zero value is sign * mantissa * 2^e,      *)
(* the mantissa held in two parts, mantissa = hi * 2^27 + lo; zero has     *)
(* sign 0.  A normal value has a mantissa of 53 bits (2^52 <= mantissa     *)
(* < 2^53) and -1074 <= e <= 971; a subnormal value has a shorter          *)
(* mantissa and e = -1074.  Addition, subtraction and division round to    *)
(* nearest, ties to even, as IEEE 754 does: a result beyond the largest    *)
(* exponent overflows to infinity, a result below the least subnormal      *)
(* underflows to zero.  The sign of zero is left out.                      *)
(***************************************************************************)
Two26 == 67108864
Two27 == 134217728

NaN == [k |-> "nan"]
Inf == [k |-> "inf", s |-> 1]
Zero == [k |-> "num", s |-> 0, hi |-> 0, lo |-> 0, e |-> 0]

IsZero(x) == x.k = "num" /\ x.s = 0

\* unsigned integers of up to 57 bits in two parts
BigOf(n) == [hi |-> n \div Two27, lo |-> n % Two27]
BigIsZero(a) == a.hi = 0 /\ a.lo = 0
BigOdd(a) == a.lo % 2 = 1
BigLess(a, b) == a.hi < b.hi \/ (a.hi = b.hi /\ a.lo < b.lo)
BigDouble(a) == [hi |-> 2 * a.hi + (2 * a.lo) \div Two27, lo |-> (2 * a.lo) % Two27]
BigHalf(a) == [hi |-> a.hi \div 2, lo |-> (a.lo \div 2) + (a.hi % 2) * Two26]
BigAdd(a, b) == [hi |-> a.hi + b.hi + (a.lo + b.lo) \div Two27, lo |-> (a.lo + b.lo) % Two27]
BigSub(a, b) ==
    IF a.lo >= b.lo THEN [hi |-> a.hi - b.hi, lo |-> a.lo - b.lo]
    ELSE [hi |-> a.hi - b.hi - 1, lo |-> a.lo + Two27 - b.lo]

Mantissa(x) == [hi |-> x.hi, lo |-> x.lo]

\* the number of bits of n, 0 <= n < 2^31
Bits(n) ==
    IF n >= 2^30 THEN 31
    ELSE CHOOSE k \in 0..30 : n < 2^k /\ (k = 0 \/ n >= 2^(k - 1))

BitLen(a) == IF a.hi > 0 THEN 27 + Bits(a.hi) ELSE Bits(a.lo)

\* a * 2^n, for a result below 2^54
BigShiftLeft(a, n) ==
    IF n >= 27 THEN [hi |-> a.lo * 2^(n - 27), lo |-> 0]
    ELSE [hi |-> a.hi * 2^n + a.lo \div 2^(27 - n), lo |-> (a.lo % 2^(27 - n)) * 2^n]

\* a \div 2^n, 0 <= n <= 57
BigShiftRight(a, n) ==
    IF n >= 27 THEN BigOf(a.hi \div 2^(n - 27))
    ELSE [hi |-> a.hi \div 2^n, lo |-> a.lo \div 2^n + (a.hi % 2^n) * 2^(27 - n)]

\* whether a % 2^n is not zero, 0 <= n <= 57
BitsLost(a, n) ==
    IF n >= 27 THEN a.lo # 0 \/ a.hi % 2^(n - 27) # 0 ELSE a.lo % 2^n # 0

\* sign, mantissa and exponent put together: a mantissa that rounding has
\* carried to 2^53 becomes 2^52 with the next exponent, a mantissa of zero is
\* zero, and a value beyond the largest exponent is infinite
Pack(s, m, e) ==
    IF BigIsZero(m) THEN Zero
    ELSE IF (IF m.hi = Two26 THEN e + 1 ELSE e) > 971 THEN [k |-> "inf", s |-> s]
    ELSE IF m.hi = Two26
         THEN [k |-> "num", s |-> s, hi |-> Two26 \div 2, lo |-> 0, e |-> e + 1]
         ELSE [k |-> "num", s |-> s, hi |-> m.hi, lo |-> m.lo, e |-> e]

\* r of 54 bits, the last of them the bit to round on: to nearest, ties to
\* even
RoundHalf(s, r, e, sticky) ==
    Pack(s,
         IF BigOdd(r) /\ (sticky \/ BigOdd(BigHalf(r)))
         THEN BigAdd(BigHalf(r), BigOf(1)) ELSE BigHalf(r),
         e + 1)

\* the number of low bits of r * 2^e, r of n bits, that a float64 cannot
\* hold: those beyond 53 bits, and those below 2^-1074 (negative when the
\* mantissa has room left)
BitsToDrop(e, n) == IF n - 53 > -1074 - e THEN n - 53 ELSE -1074 - e

\* r of n bits, n <= 57: shifted left when no bit has to go, else cut to the
\* bit to round on and rounded; zero when less than half of 2^-1074 is left
RoundBits(s, r, e, sticky, n) ==
    IF BitsToDrop(e, n) <= 0
    THEN Pack(s, BigShiftLeft(r, -BitsToDrop(e, n)), e + BitsToDrop(e, n))
    ELSE IF BitsToDrop(e, n) > 57 THEN Zero
    ELSE RoundHalf(s, BigShiftRight(r, BitsToDrop(e, n) - 1), e + BitsToDrop(e, n) - 1,
                   sticky \/ BitsLost(r, BitsToDrop(e, n) - 1))

\* the float64 nearest to s * r * 2^e (plus a fraction of 2^e when sticky,
\* which needs r of at least 54 bits)
RoundPack(s, r, e, sticky) ==
    IF BigIsZero(r) THEN Zero ELSE RoundBits(s, r, e, sticky, BitLen(r))

\* float(n) of a small integer
FromInt(n) ==
    IF n = 0 THEN Zero
    ELSE RoundPack(IF n < 0 THEN -1 ELSE 1, BigOf(IF n < 0 THEN -n ELSE n), 0, FALSE)

FNeg(x) == IF x.k = "nan" THEN x ELSE [x EXCEPT !.s = -x.s]

\* a shifted right by n bits, the bits shifted out or-ed into the last bit
ShiftRightJam(a, n) ==
    IF BitsLost(a, n) /\ ~BigOdd(BigShiftRight(a, n))
    THEN BigAdd(BigShiftRight(a, n), BigOf(1))
    ELSE BigShiftRight(a, n)

\* |x| < |y| for two finite non-zero values
MagLess(x, y) ==
    x.e < y.e \/ (x.e = y.e /\ BigLess(Mantissa(x), Mantissa(y)))

\* big + small for two finite non-zero values, |big| >= |small|: the
\* mantissas with three more bits, the smaller operand aligned to the larger
AddAligned(big, small) ==
    LET shift == IF big.e - small.e > 57 THEN 57 ELSE big.e - small.e
        X == BigDouble(BigDouble(BigDouble(Mantissa(big))))
        Y == ShiftRightJam(BigDouble(BigDouble(BigDouble(Mantissa(small)))), shift)
    IN  IF big.s = small.s THEN RoundPack(big.s, BigAdd(X, Y), big.e - 3, FALSE)
        ELSE RoundPack(big.s, BigSub(X, Y), big.e - 3, FALSE)

FAdd(x, y) ==
    IF x.k = "nan" \/ y.k = "nan" THEN NaN
    ELSE IF x.k = "inf" /\ y.k = "inf" THEN (IF x.s = y.s THEN x ELSE NaN)
    ELSE IF x.k = "inf" THEN x
    ELSE IF y.k = "inf" THEN y
    ELSE IF x.s = 0 THEN y
    ELSE IF y.s = 0 THEN x
    ELSE IF MagLess(x, y) THEN AddAligned(y, x)
    ELSE AddAligned(x, y)

FSub(x, y) == FAdd(x, FNeg(y))

\* one step of the long division of st.r by d: the next quotient bit
DivStep(st, d) ==
    IF BigLess(st.r, d) THEN [r |-> BigDouble(st.r), q |-> BigDouble(st.q)]
    ELSE [r |-> BigDouble(BigSub(st.r, d)), q |-> BigAdd(BigDouble(st.q), BigOf(1))]

\* n >= 1 steps of the long division: the quotient bits and what is left
DivLoop(st, d, n) ==
    LET steps[k \in Nat, t \in [r : [hi : Nat, lo : Nat], q : [hi : Nat, lo : Nat]]] ==
            IF k = 1 THEN DivStep(t, d) ELSE steps[k - k \div 2, steps[k \div 2, t]]
    IN  steps[n, st]

\* the rounded quotient from 55 quotient bits and the rest of the division
RoundQuotient(s, qr, e) == RoundPack(s, qr.q, e, ~BigIsZero(qr.r))

\* a finite non-zero value with its mantissa made 53 bits (the exponent of a
\* subnormal goes below -1074)
Normalized(x) ==
    [m |-> BigShiftLeft(Mantissa(x), 53 - BitLen(Mantissa(x))),
     e |-> x.e - (53 - BitLen(Mantissa(x)))]

\* numpy float64 division (inf or nan, and a warning, for a zero divisor; inf
\* and a warning for a quotient that overflows)
FDiv(x, y) ==
    IF x.k = "nan" \/ y.k = "nan" THEN NaN
    ELSE IF x.k = "inf" /\ y.k = "inf" THEN NaN
    ELSE IF x.k = "inf" THEN (IF y.s < 0 THEN FNeg(x) ELSE x)
    ELSE IF y.k = "inf" THEN Zero
    ELSE IF y.s = 0 THEN (IF x.s = 0 THEN NaN ELSE IF x.s < 0 THEN FNeg(Inf) ELSE Inf)
    ELSE IF x.s = 0 THEN Zero
    ELSE RoundQuotient(x.s * y.s,
                       DivLoop([r |-> Normalized(x).m, q |-> BigOf(0)],
                               Normalized(y).m, 55),
                       Normalized(x).e - Normalized(y).e - 54)

\* the float64 value v * 2^e, v a small integer
Scaled(v, e) ==
    IF v = 0 THEN Zero
    ELSE RoundPack(IF v < 0 THEN -1 ELSE 1, BigOf(IF v < 0 THEN -v ELSE v), e, FALSE)

RECURSIVE FSum(_)
\* the sum of float64 values, added one after the other from the first on
FSum(vals) ==
    IF vals = <<>> THEN Zero
    ELSE FAdd(FSum(SubSeq(vals, 1, Len(vals) - 1)), vals[Len(vals)])

\* Series.mean(): the sum over the count, NaN for an empty selection.  The
\* sum of small integers is exact; float64 cells of any magnitude are added
\* in float64 (on the tables explored the cells of one group of rows share
\* their exponent, so that the sum does not depend on the order of the
\* additions)
Mean(vals, real) ==
    IF Len(vals) = 0 THEN NaN
    ELSE FDiv(IF real THEN FSum(vals) ELSE FromInt(SumSeq(vals)), FromInt(Len(vals)))

\* abs(): the sort key
FAbs(x) == IF x.k = "nan" THEN x ELSE [x EXCEPT !.s = IF x.s = 0 THEN 0 ELSE 1]

\* x < y on float64 (false when either side is NaN); x, y >= 0 or +inf
FLess(x, y) ==
    IF x.k = "nan" \/ y.k = "nan" THEN FALSE
    ELSE IF x.k = "inf" THEN FALSE
    ELSE IF y.k = "inf" THEN TRUE
    ELSE IF y.s = 0 THEN FALSE
    ELSE IF x.s = 0 THEN TRUE
    ELSE MagLess(x, y)

(***************************************************************************)
(* Tables.  A table is a sequence of columns [name, real, vals]; all        *)
(* columns have one value per row.  The cells of a column are small        *)
(* integers, NA for a missing cell of the input file, or, in a column      *)
(* marked real, float64 values of any magnitude, NaN for a missing cell.   *)
(***************************************************************************)
NA == -1

columns_to_drop == <<TimestampCol, Timestamp2Col, UnnamedCol>>

ColumnNames(t) == [i \in 1..Len(t) |-> t[i].name]

HasColumn(t, name) == \E i \in 1..Len(t) : t[i].name = name

\* t[name]; only used where the column exists
Column(t, name) == t[CHOOSE i \in 1..Len(t) : t[i].name = name].vals

\* t.drop(name, axis=1)
DropColumn(t, name) == SelectSeq(t, LAMBDA c : c.name # name)

\* df.fillna(0)
FillNa(t) ==
    [i \in 1..Len(t) |->
        [t[i] EXCEPT !.vals = [r \in 1..Len(t[i].vals) |->
            IF t[i].real
            THEN (IF t[i].vals[r].k = "nan" THEN Zero ELSE t[i].vals[r])
            ELSE (IF t[i].vals[r] = NA THEN 0 ELSE t[i].vals[r])]]]

\* the rows of a column at the given row positions
Take(vals, idx) == [p \in 1..Len(idx) |-> vals[idx[p]]]

RECURSIVE DropAll(_, _)
\* cell "drop": for col in columns_to_drop: if col in df.columns: df = df.drop(col)
DropAll(t, names) ==
    IF names = <<>> THEN t
    ELSE DropAll(IF HasColumn(t, Head(names)) THEN DropColumn(t, Head(names)) ELSE t,
                 Tail(names))

(***************************************************************************)
(* The input files that are explored.  A file has n0 rows labelled 0       *)
(* followed by n1 rows labelled 1.  Feature column j is generated from a   *)
(* pair (a, b) of base levels for the normal and the anomaly rows: odd     *)
(* columns use (a + c, b + c), even columns (b + c, a + c), where c is     *)
(* 0, 3, 6, 2, 5, 1, 4, 0, ... for the column pairs 1-2, 3-4, 5-6, ...;    *)
(* the value of a row doubles on odd rows, and a zero on an even row is    *)
(* written as a missing cell.                                              *)
(***************************************************************************)
Namings == {"word", "digits"}

FeatureName(naming, j) ==
    IF naming = "digits" THEN Decimal(j) ELSE <<"f">> \o Decimal(j)

Labels(n0, n1) == [i \in 1..(n0 + n1) |-> IF i <= n0 THEN 0 ELSE 1]

BaseLevel(a, b, j, label) ==
    LET c == (3 * ((j - 1) \div 2)) % 7
        lo == IF j % 2 = 1 THEN a ELSE b
        hi == IF j % 2 = 1 THEN b ELSE a
    IN  (IF label = 0 THEN lo ELSE hi) + c

RawCell(a, b, j, i, label) ==
    LET v == BaseLevel(a, b, j, label) * (1 + (i % 2))
    IN  IF v = 0 /\ i % 2 = 0 THEN NA ELSE v

FeatureColumn(naming, a, b, j, n0, n1) ==
    [name |-> FeatureName(naming, j), real |-> FALSE,
     vals |-> [i \in 1..(n0 + n1) |-> RawCell(a, b, j, i, Labels(n0, n1)[i])]]

IndexColumn(name, n) == [name |-> name, real |-> FALSE, vals |-> [i \in 1..n |-> i]]

ClassColumn(n0, n1) == [name |-> ClassCol, real |-> FALSE, vals |-> Labels(n0, n1)]

FileTable(naming, dropcols, hasclass, ncols, a, b, n0, n1) ==
    [i \in 1..Len(dropcols) |-> IndexColumn(dropcols[i], n0 + n1)]
    \o [j \in 1..ncols |-> FeatureColumn(naming, a, b, j, n0, n1)]
    \o (IF hasclass THEN <<ClassColumn(n0, n1)>> ELSE <<>>)

\* a feature column of real cells: the cells of FeatureColumn times 2^en on
\* the normal rows and times 2^ea on the anomaly rows
RealColumn(naming, a, b, j, n0, n1, en, ea) ==
    [name |-> FeatureName(naming, j), real |-> TRUE,
     vals |-> [i \in 1..(n0 + n1) |->
                  IF RawCell(a, b, j, i, Labels(n0, n1)[i]) = NA THEN NaN
                  ELSE Scaled(RawCell(a, b, j, i, Labels(n0, n1)[i]),
                              IF Labels(n0, n1)[i] = 0 THEN en ELSE ea)]]

RealFileTable(naming, ncols, a, b, n0, n1, en, ea) ==
    [j \in 1..ncols |-> RealColumn(naming, a, b, j, n0, n1, en, ea)]
    \o <<ClassColumn(n0, n1)>>

\* the scales of the real cells: the least subnormal, a small and a large
\* magnitude, and the unit
Exponents == {-1074, -MaxExp, 0, MaxExp}

DropColChoices == {<<>>, <<UnnamedCol, TimestampCol, Timestamp2Col>>}
RowCountsNormal == {0, 1, 2, MaxNormal}
RowCountsAnomaly == {0, 1, MaxAnomaly}

BrokenFiles ==
    {[status |-> "absent", table |-> <<>>], [status |-> "malformed", table |-> <<>>]}
    \cup {[status |-> "ok",
           table |-> FileTable("word", <<TimestampCol>>, FALSE, 1, 1, 1, 1, 1)]}

\* the files on which the feature selection is explored: tables of one or
\* two feature columns of every kind, and tables of K and more columns
\* without the columns to drop
InputFiles ==
    BrokenFiles
    \cup {[status |-> "ok", table |-> FileTable(nm, dc, TRUE, nc, a, b, n0, n1)] :
            nm \in Namings, dc \in DropColChoices, nc \in {1, 2},
            a \in 0..MaxVal, b \in 0..MaxVal,
            n0 \in RowCountsNormal, n1 \in RowCountsAnomaly}
    \cup {[status |-> "ok",
           table |-> FileTable(nm, <<>>, TRUE, nc, ab[1], ab[2], n0, n1)] :
            nm \in Namings, nc \in {K, K + ExtraCols},
            ab \in {p \in {0, 1} \X (0..MaxVal) : p[1] # p[2]},
            n0 \in {MaxNormal}, n1 \in {1, MaxAnomaly}}

\* the files of real cells on which the feature selection is explored:
\* tables of one or two feature columns with rows of both labels
RealFiles ==
    {[status |-> "ok", table |-> RealFileTable("word", nc, a, b, n0, n1, en, ea)] :
        nc \in {1, 2}, a \in 0..MaxVal, b \in 0..MaxVal,
        n0 \in {1, 2, MaxNormal}, n1 \in {1, MaxAnomaly},
        en \in Exponents, ea \in Exponents}

\* the files on which the whole notebook is explored
PipelineFiles ==
    BrokenFiles
    \cup {[status |-> "ok", table |-> FileTable(nm, dc, TRUE, nc, 0, b, n0, n1)] :
            nm \in Namings, dc \in DropColChoices, nc \in {1, 2},
            b \in 0..MaxVal,
            n0 \in RowCountsNormal, n1 \in RowCountsAnomaly \cup {MoreAnomaly}}
    \cup {[status |-> "ok",
           table |-> FileTable(nm, dc, TRUE, K + ExtraCols, 0, b, MaxNormal, n1)] :
            nm \in Namings, dc \in DropColChoices, b \in 1..MaxVal,
            n1 \in {1, MaxAnomaly}}

(***************************************************************************)
(* Cell "diffs": the relative change of every feature column.              *)
(***************************************************************************)
RowsWhere(t, label) == SelectIdx(Column(t, ClassCol), label, 1)

\* variant: the change of the means left undivided
RelativeChangeAbsolute(normal_mean, anomaly_mean) ==
    IF IsZero(normal_mean)
    THEN (IF IsZero(anomaly_mean) THEN Zero ELSE Inf)
    ELSE FSub(anomaly_mean, normal_mean)

\* diff, from the two means
RelativeChange(normal_mean, anomaly_mean) ==
    IF IsZero(normal_mean)
    THEN (IF IsZero(anomaly_mean) THEN Zero ELSE Inf)
    ELSE FDiv(FSub(anomaly_mean, normal_mean), normal_mean)

\* the body of the loop over X.columns
FeatureDiff(normal_vals, anomaly_vals, real) ==
    RelativeChange(Mean(normal_vals, real),
                   IF Len(anomaly_vals) # 0 THEN Mean(anomaly_vals, real) ELSE Zero)

\* list(feature_diffs.items()): one (Feature, Relative Change) pair per column
\* of X, in column order
FeatureDiffs(dframe, Xcols) ==
    LET anomaly == RowsWhere(dframe, 1)
        normal == RowsWhere(dframe, 0)
    IN  [i \in 1..Len(Xcols) |->
            [Feature |-> Xcols[i].name,
             Change |-> FeatureDiff(Take(Column(dframe, Xcols[i].name), normal),
                                    Take(Column(dframe, Xcols[i].name), anomaly),
                                    Xcols[i].real)]]

(***************************************************************************)
(* sort_values('Relative Change', key=abs, ascending=False): pandas        *)
(* argsorts the reversed non-NaN keys ascending, reverses the result and   *)
(* appends the NaN rows in their original order.  The default sort kind    *)
(* is not stable: in which order equal keys come out is decided inside     *)
(* numpy (by the sorting routine of the build), not by the notebook, so    *)
(* every order of equal keys is a possible result of the call.             *)
(***************************************************************************)
RECURSIVE InsertAsc(_, _, _)
\* insert index i into the ascending index list `sorted`, behind equal keys
InsertAsc(sorted, i, keys) ==
    IF sorted = <<>> THEN <<i>>
    ELSE IF FLess(keys[i], keys[Head(sorted)]) THEN <<i>> \o sorted
         ELSE <<Head(sorted)>> \o InsertAsc(Tail(sorted), i, keys)

RECURSIVE ArgsortAsc(_, _)
\* the first n keys in ascending order, equal keys in their original order
ArgsortAsc(keys, n) ==
    IF n = 0 THEN <<>> ELSE InsertAsc(ArgsortAsc(keys, n - 1), n, keys)

RECURSIVE Orderings(_)
\* the orders in which the elements of s can follow each other
Orderings(s) ==
    IF s = <<>> THEN {<<>>}
    ELSE UNION {{<<s[i]>> \o r :
                    r \in Orderings(SubSeq(s, 1, i - 1) \o SubSeq(s, i + 1, Len(s)))} :
                i \in 1..Len(s)}

\* the last position of the run of equal keys that starts at position p of
\* the ascending index list
RunEnd(sorted, keys, p) ==
    CHOOSE q \in p..Len(sorted) :
        /\ \A r \in p..q : keys[sorted[r]] = keys[sorted[p]]
        /\ q = Len(sorted) \/ keys[sorted[q + 1]] # keys[sorted[p]]

RECURSIVE TieOrders(_, _, _)
\* the index lists that differ from `sorted`, from position p on, in the order
\* of equal keys only
TieOrders(sorted, keys, p) ==
    IF p > Len(sorted) THEN {<<>>}
    ELSE {run \o rest : run \in Orderings(SubSeq(sorted, p, RunEnd(sorted, keys, p))),
                        rest \in TieOrders(sorted, keys, RunEnd(sorted, keys, p) + 1)}

\* keys.argsort(): the ascending index lists that the call can return
Argsort(keys) == TieOrders(ArgsortAsc(keys, Len(keys)), keys, 1)

RECURSIVE IdxWhereNaN(_, _, _)
IdxWhereNaN(keys, from, want) ==
    IF from > Len(keys) THEN <<>>
    ELSE (IF (keys[from].k = "nan") = want THEN <<from>> ELSE <<>>)
         \o IdxWhereNaN(keys, from + 1, want)

\* nargsort(keys, ascending=False, na_position='last'): the index lists that
\* the call can return
NargsortDesc(keys) ==
    LET non_nan_idx == Reverse(IdxWhereNaN(keys, 1, FALSE))
        nan_idx == IdxWhereNaN(keys, 1, TRUE)
    IN  {Reverse(Take(non_nan_idx, order)) \o nan_idx :
            order \in Argsort(Take(keys, non_nan_idx))}

\* variant: ascending=True, the default of sort_values
SortValuesAscending(items) ==
    LET keys == [i \in 1..Len(items) |-> FAbs(items[i].Change)]
        non_nan_idx == IdxWhereNaN(keys, 1, FALSE)
    IN  {Take(items, Take(non_nan_idx, order) \o IdxWhereNaN(keys, 1, TRUE)) :
            order \in Argsort(Take(keys, non_nan_idx))}

\* the rankings that sort_values can return
SortValues(items) ==
    {Take(items, order) :
        order \in NargsortDesc([i \in 1..Len(items) |-> FAbs(items[i].Change)])}

(***************************************************************************)
(* Cell "select": feature_diff_df.head(15)['Feature'].tolist()             *)
(***************************************************************************)
\* variant: always n rows, the last row repeated when there are fewer
HeadRowsPadded(s, n) == [i \in 1..(IF Len(s) = 0 THEN 0 ELSE n) |-> s[Min(i, Len(s))]]

HeadRows(s, n) == SubSeq(s, 1, Min(n, Len(s)))

TopFeatures(sorted_items) ==
    LET h == HeadRows(sorted_items, K)
    IN  [i \in 1..Len(h) |-> PyStr(h[i].Feature)]

\* X[top_features]: the columns named by the keys, in the order of the keys;
\* a key that is no column label is a KeyError (the empty table stands for it)
HasKeys(t, keys) == \A i \in 1..Len(keys) : keys[i].t = "str" /\ HasColumn(t, keys[i].v)

\* variant: the columns named by the keys, in the order of the table
SelectColumnsInTableOrder(t, keys) ==
    LET kept[i \in 0..Len(t)] ==
            IF i = 0 THEN <<>>
            ELSE IF \E k \in 1..Len(keys) : keys[k].v = t[i].name
                 THEN Append(kept[i - 1], t[i])
                 ELSE kept[i - 1]
    IN  kept[Len(t)]

SelectColumns(t, keys) ==
    [i \in 1..Len(keys) |->
        t[CHOOSE c \in 1..Len(t) : t[c].name = keys[i].v]]

(***************************************************************************)
(* Cell "split": train_test_split(X_selected, y, test_size=0.3,            *)
(* random_state=42, stratify=y), scikit-learn's stratified shuffle split   *)
(* driven by numpy's RandomState(42): the per-class allocation of          *)
(* _approximate_mode, one permutation of the rows of each class, and one   *)
(* permutation each of the training and of the test rows.  A random state  *)
(* is a position in the stream of 32-bit outputs of the generator.         *)
(***************************************************************************)
\* the low byte of each of the first outputs of MT19937 seeded with 42 (the
\* draws below are masked to fewer bits than that)
RandomState42 == <<
    102, 179,  92,  14, 106,  71, 188,  20, 102, 121, 210, 214,  74, 202,  87, 116,
     99, 103, 151, 130, 149,  52,   1,  87, 235, 157,  37, 129, 191, 187,  20, 160,
    203,  57,  21, 252, 235,  88,  48, 218,  58, 254, 169, 255, 219, 187, 207,  14,
    189, 189, 174, 189,  50, 107,  54, 243,  63, 248, 130, 228,  50, 134,  20,  72,
    166,  17, 131,  88,  59,  13, 241, 249,   8,  89,  52, 129,  83,  91, 110, 187,
    198, 171, 252,   7, 174,  34, 205,  80, 163,  49, 103, 131,   1, 253, 133,  53,
    105,   3,  53, 220, 190, 145, 217,  43, 161, 201, 189, 227,  13,  94,  47,  14,
    199, 205, 214, 251, 248, 189,  39, 212, 207, 236,  81, 110,  52,  23, 153, 216,
    251, 187, 123, 236,  40, 156,  14,  44,  64,  88,  70,   8,  87, 128, 235, 135,
    215,  62, 138, 242,  80, 135, 162, 162,  32, 122,   4, 233, 230, 249,  40,  27 >>

CeilDiv(a, b) == (a + b - 1) \div b

NTest(n) == CeilDiv(TestSizeNum * n, TestSizeDen)

NTrain(n) == n - NTest(n)

ClassCount(labels, c) == Len(SelectIdx(labels, c, 1))

SplitRaises(labels) ==
    LET n == Len(labels)
        classes == Range(labels)
    IN  \/ n = 0
        \/ NTrain(n) = 0
        \/ \E c \in classes : ClassCount(labels, c) < 2
        \/ NTrain(n) < Cardinality(classes)
        \/ NTest(n) < Cardinality(classes)

RECURSIVE Mask(_, _)
\* the smallest 2^k - 1 that is at least max, from m up
Mask(max, m) == IF m >= max THEN m ELSE Mask(max, 2 * m + 1)

RECURSIVE random_interval(_, _)
\* a draw from 0..max: masked outputs until one is not above max
random_interval(max, pos) ==
    IF max = 0 THEN [v |-> 0, pos |-> pos]
    ELSE LET value == RandomState42[pos] % (Mask(max, 1) + 1)
         IN  IF value <= max THEN [v |-> value, pos |-> pos + 1]
             ELSE random_interval(max, pos + 1)

RECURSIVE shuffle(_, _, _)
\* RandomState.shuffle: for i = n-1 down to 1, swap places i and j, j drawn
\* from 0..i (places counted from 0)
shuffle(arr, i, pos) ==
    IF i < 1 THEN [arr |-> arr, pos |-> pos]
    ELSE LET j == random_interval(i, pos)
         IN  shuffle([arr EXCEPT ![i + 1] = arr[j.v + 1], ![j.v + 1] = arr[i + 1]],
                     i - 1, j.pos)

\* RandomState.permutation of a list
permutation(arr, pos) == shuffle(arr, Len(arr) - 1, pos)

\* RandomState.choice(inds, size, replace=False)
choice(inds, size, pos) ==
    LET perm == permutation([i \in 1..Len(inds) |-> i], pos)
    IN  [out |-> {inds[perm.arr[i]] : i \in 1..size}, pos |-> perm.pos]

\* floor of a float64 value x, 0 <= x < 2^27
FFloor(x) ==
    IF x.s = 0 \/ x.e < -57 THEN 0 ELSE BigShiftRight(Mantissa(x), -x.e).lo

\* x * n for an integer n, 0 < n < 16
FMulInt(x, n) ==
    IF x.s = 0 THEN Zero
    ELSE RoundPack(x.s, [hi |-> n * x.hi + (n * x.lo) \div Two27,
                         lo |-> (n * x.lo) % Two27], x.e, FALSE)

RECURSIVE SortedSeq(_)
\* np.unique: the members of a set of integers, ascending
SortedSeq(S) ==
    IF S = {} THEN <<>>
    ELSE LET m == CHOOSE v \in S : \A w \in S : v <= w
         IN  <<m>> \o SortedSeq(S \ {m})

\* the classes of `inds` that choice has drawn get one more each
AddChosen(floored, chosen) ==
    [counts |-> [i \in 1..Len(floored) |->
                    IF i \in chosen.out THEN floored[i] + 1 ELSE floored[i]],
     pos |-> chosen.pos]

\* the classes among `left` with the largest remainder
Top(remainder, left) ==
    {i \in left : \A j \in left : ~FLess(remainder[i], remainder[j])}

RECURSIVE AddByRemainder(_, _, _, _)
\* the loop of _approximate_mode over the remainders, the largest first: the
\* classes of one remainder get one more each, drawn by choice when there
\* are more of them than are needed
AddByRemainder(acc, remainder, left, need_to_add) ==
    IF need_to_add = 0 \/ left = {} THEN acc
    ELSE LET top == Top(remainder, left)
             add_now == Min(Cardinality(top), need_to_add)
         IN  AddByRemainder(AddChosen(acc.counts, choice(SortedSeq(top), add_now, acc.pos)),
                            remainder, left \ top, need_to_add - add_now)

\* _approximate_mode from `floored = np.floor(continuous)` on
ApproximateFloored(continuous, floored, n_draws, pos) ==
    IF n_draws - SumSeq(floored) > 0
    THEN AddByRemainder([counts |-> floored, pos |-> pos],
                        [i \in 1..Len(continuous) |->
                            FSub(continuous[i], FromInt(floored[i]))],
                        1..Len(continuous), n_draws - SumSeq(floored))
    ELSE [counts |-> floored, pos |-> pos]

ApproximateContinuous(continuous, n_draws, pos) ==
    ApproximateFloored(continuous,
                       [i \in 1..Len(continuous) |-> FFloor(continuous[i])], n_draws, pos)

\* _approximate_mode(class_counts, n_draws, rng)
approximate_mode(class_counts, n_draws, pos) ==
    ApproximateContinuous([i \in 1..Len(class_counts) |->
                              FMulInt(FDiv(FromInt(class_counts[i]),
                                           FromInt(SumSeq(class_counts))), n_draws)],
                          n_draws, pos)

RECURSIVE ClassPicks(_, _, _, _, _, _)
RECURSIVE ClassPick(_, _, _, _, _, _)
\* the loop over the classes of _iter_indices: the rows of class i permuted,
\* the first n_i of them to train and the next t_i to test
ClassPicks(class_indices, n_i, t_i, i, acc, pos) ==
    IF i > Len(class_indices) THEN [train |-> acc.train, test |-> acc.test, pos |-> pos]
    ELSE ClassPick(class_indices, n_i, t_i, i, acc,
                   permutation([k \in 1..Len(class_indices[i]) |-> k], pos))

ClassPick(class_indices, n_i, t_i, i, acc, perm) ==
    ClassPicks(class_indices, n_i, t_i, i + 1,
               [train |-> acc.train \o SubSeq(Take(class_indices[i], perm.arr), 1, n_i[i]),
                test |-> acc.test \o SubSeq(Take(class_indices[i], perm.arr), n_i[i] + 1,
                                            n_i[i] + t_i[i])],
               perm.pos)

\* the picks once both allocations are known
PicksOfModes(class_indices, n_i, t_i) ==
    ClassPicks(class_indices, n_i.counts, t_i.counts, 1, [train |-> <<>>, test |-> <<>>],
               t_i.pos)

\* t_i = _approximate_mode(class_counts_remaining, n_test, rng)
PicksOfTrainMode(class_indices, n_i, n_test) ==
    PicksOfModes(class_indices, n_i,
                 approximate_mode([i \in 1..Len(class_indices) |->
                                      Len(class_indices[i]) - n_i.counts[i]],
                                  n_test, n_i.pos))

\* n_i = _approximate_mode(class_counts, n_train, rng)
StratifiedPicks(class_indices, n_train, n_test) ==
    PicksOfTrainMode(class_indices,
                     approximate_mode([i \in 1..Len(class_indices) |-> Len(class_indices[i])],
                                      n_train, 1),
                     n_test)

\* test = rng.permutation(test), after that of train
PermuteTest(train, test) == [train |-> train.arr, test |-> permutation(test, train.pos).arr]

\* variant: the test rows are not taken out of the training rows
PermutePartsLeaky(picks) ==
    PermuteTest(permutation(picks.train \o picks.test, picks.pos), picks.test)

\* train = rng.permutation(train); test = rng.permutation(test)
PermuteParts(picks) == PermuteTest(permutation(picks.train, picks.pos), picks.test)

\* np.unique(y, return_inverse=True): the rows of each class, the classes
\* ascending
ClassIndices(labels, classes) ==
    [i \in 1..Len(classes) |-> SelectIdx(labels, classes[i], 1)]

\* the row positions of X_train and of X_test, in their order
train_test_split(labels) ==
    PermuteParts(StratifiedPicks(ClassIndices(labels, SortedSeq(Range(labels))),
                                 NTrain(Len(labels)), NTest(Len(labels))))

\* y.loc[index]: the labels of the rows at the given positions, in that order
RowsOf(labels, index) == Take(labels, index)

(***************************************************************************)
(* Cell "train": GridSearchCV(pipeline, param_grid, cv=5, scoring='f1')    *)
(* fitted on the training rows.  The search raises when the 5 stratified   *)
(* folds cannot be formed or every fit fails (a single class); otherwise   *)
(* the candidate with the best mean score is refitted on all training      *)
(* rows.                                                                   *)
(***************************************************************************)
svm__C == {"0.1", "1", "10", "100"}
svm__gamma == {"scale", "auto", "0.1", "0.01"}
svm__kernel == {"rbf", "linear", "poly"}

param_grid == [C : svm__C, gamma : svm__gamma, kernel : svm__kernel]

Unfitted == [fitted |-> FALSE]

FitRaises(train_labels) ==
    \/ Cardinality(Range(train_labels)) < 2
    \/ Len(train_labels) < cv
    \/ \A c \in Range(train_labels) : ClassCount(train_labels, c) < cv

\* The candidates the search can rank first.  Of two classes, one with a
\* single training row is in the test part of one fold: the fit on the other
\* part of that fold fails (one class), its score is NaN (error_score), every
\* mean score is NaN, all candidates tie and best_index_ is 0, the first
\* candidate of ParameterGrid(param_grid).  Otherwise the scores decide.
BestCandidates(train_labels) ==
    IF /\ Cardinality(Range(train_labels)) = 2
       /\ \E c \in Range(train_labels) : ClassCount(train_labels, c) = 1
    THEN {[C |-> "0.1", gamma |-> "scale", kernel |-> "rbf"]}
    ELSE param_grid

\* a fitted estimator: what it is, its hyperparameters, the columns and the
\* rows it was fitted on
Fitted(what, params, names, rows) ==
    [fitted |-> TRUE, what |-> what, params |-> params,
     feature_names_in |-> names, fit_rows |-> rows]

\* the row at position r of a table: its values in column order
Row(t, r) == [j \in 1..Len(t) |-> t[j].vals[r]]

\* predict(): the decision function of the fitted classifier is the
\* library's and is left open; it is a function of the feature values of a
\* row, so the possible results are the label vectors that agree on equal
\* rows
Predictions(t, rows) ==
    {p \in [1..Len(rows) -> {0, 1}] :
        \A i, j \in 1..Len(rows) : Row(t, rows[i]) = Row(t, rows[j]) => p[i] = p[j]}

(***************************************************************************)
(* Cell "metrics": precision_recall_fscore_support(y_test, y_pred,         *)
(* average='binary') with the default zero_division: a ratio with a zero   *)
(* denominator is reported as 0.0 and a warning, and the notebook has      *)
(* switched warnings off.                                                  *)
(***************************************************************************)
CountBoth(truth, pred, t, p) ==
    Cardinality({i \in 1..Len(truth) : truth[i] = t /\ pred[i] = p})

Ratio(n, d) == IF d = 0 THEN Zero ELSE FDiv(FromInt(n), FromInt(d))

Precision(truth, pred) ==
    Ratio(CountBoth(truth, pred, 1, 1),
          CountBoth(truth, pred, 1, 1) + CountBoth(truth, pred, 0, 1))

Recall(truth, pred) ==
    Ratio(CountBoth(truth, pred, 1, 1),
          CountBoth(truth, pred, 1, 1) + CountBoth(truth, pred, 1, 0))

(***************************************************************************)
(* Cells "persist" and "reload": joblib.dump / joblib.load of the model,   *)
(* DataFrame.to_csv / read_csv of the feature list.  The CSV file is a     *)
(* sequence of text lines; read_csv infers the type of the column from     *)
(* the text of its cells.                                                  *)
(***************************************************************************)
NoFile == [exists |-> FALSE]

JoblibDump(obj) == [exists |-> TRUE, format |-> "joblib", payload |-> obj]

JoblibLoad(f) == f.payload

\* pd.DataFrame(names, columns=[header]).to_csv(index=False)
ToCsv(names, header) ==
    [exists |-> TRUE, format |-> "csv",
     lines |-> <<header>> \o [i \in 1..Len(names) |-> names[i].v]]

IsDigit(ch) == \E d \in 1..10 : DigitChars[d] = ch

DigitValue(ch) == (CHOOSE d \in 1..10 : DigitChars[d] = ch) - 1

IsIntText(cell) == Len(cell) > 0 /\ \A i \in 1..Len(cell) : IsDigit(cell[i])

RECURSIVE ParseInt(_)
ParseInt(cell) ==
    IF cell = <<>> THEN 0
    ELSE 10 * ParseInt(SubSeq(cell, 1, Len(cell) - 1)) + DigitValue(cell[Len(cell)])

\* pd.read_csv(f)[header].tolist(): integers when every cell is an integer
\* literal, the text of the cells otherwise
ReadCsvColumn(f, header) ==
    LET cells == Tail(f.lines)
    IN  IF cells # <<>> /\ \A i \in 1..Len(cells) : IsIntText(cells[i])
        THEN [i \in 1..Len(cells) |-> PyInt(ParseInt(cells[i]))]
        ELSE [i \in 1..Len(cells) |-> PyStr(cells[i])]

(***************************************************************************)
(* The state of a notebook session.                                        *)
(***************************************************************************)
VARIABLES
    pc,                        \* the cell to run next, "done" or "halted"
    error,                     \* the exception that halted the run and its cell
    file,                      \* the dataset file (read-only input)
    installed,                 \* whether shap and lime are installed
    EXPLAINABILITY_AVAILABLE,
    out,                       \* the messages printed so far
    df, X, y,
    feature_diffs, feature_diff_df, top_features, X_selected,
    X_train_index, X_test_index, y_test,
    grid_search, best_model, y_pred, precision, recall,
    svm_2d, linear_svm, shap_model,
    disk,                      \* the two artifact files
    written,                   \* the artifacts this run has written
    loaded_model, selected_features,
    run                        \* the number of this run of the notebook

vars == <<pc, error, file, installed, EXPLAINABILITY_AVAILABLE, out,
          df, X, y, feature_diffs, feature_diff_df, top_features, X_selected,
          X_train_index, X_test_index, y_test, grid_search, best_model, y_pred,
          precision, recall, svm_2d, linear_svm, shap_model, disk, written,
          loaded_model, selected_features, run>>

envVars == <<file, installed>>
importVars == <<EXPLAINABILITY_AVAILABLE>>
dataVars == <<df, X, y>>
selVars == <<feature_diffs, feature_diff_df, top_features, X_selected>>
splitVars == <<X_train_index, X_test_index, y_test>>
trainVars == <<grid_search, best_model>>
evalVars == <<y_pred, precision, recall>>
auxVars == <<svm_2d, linear_svm, shap_model>>
diskVars == <<disk, written>>
loadVars == <<loaded_model, selected_features>>
runVars == <<run>>

NoError == [type |-> "none", cell |-> "none"]

Fresh ==
    /\ error = NoError
    /\ EXPLAINABILITY_AVAILABLE = FALSE
    /\ out = {}
    /\ df = <<>> /\ X = <<>> /\ y = <<>>
    /\ feature_diffs = <<>> /\ feature_diff_df = <<>>
    /\ top_features = <<>> /\ X_selected = <<>>
    /\ X_train_index = <<>> /\ X_test_index = <<>> /\ y_test = <<>>
    /\ grid_search = Unfitted /\ best_model = Unfitted
    /\ y_pred = <<>> /\ precision = NaN /\ recall = NaN
    /\ svm_2d = Unfitted /\ linear_svm = Unfitted /\ shap_model = Unfitted
    /\ disk = [model |-> NoFile, features |-> NoFile]
    /\ written = {}
    /\ loaded_model = Unfitted /\ selected_features = <<>>

\* the first run of the notebook
FirstRun == run = 1

Init ==
    /\ pc = "pip"
    /\ file \in PipelineFiles
    /\ installed \in BOOLEAN
    /\ Fresh
    /\ FirstRun

\* variant: the exception is recorded and the run goes on with the persister
RaiseSwallowed(type) ==
    /\ pc' = IF pc = "persist" THEN "halted" ELSE "persist"
    /\ error' = [type |-> type, cell |-> pc]

\* an exception propagates out of the cell and the run stops there
Raise(type) ==
    /\ pc' = "halted"
    /\ error' = [type |-> type, cell |-> pc]

Goto(cell) ==
    /\ pc' = cell
    /\ UNCHANGED error

CellOrder ==
    <<"pip", "import", "load", "fillna", "classdist", "drop", "diffs", "select", "split",
      "train", "predict", "metrics", "pca", "svm2d", "timeseries", "linear", "shap",
      "lime", "persist", "reload", "done">>

CellIndex(c) == CHOOSE i \in 1..Len(CellOrder) : CellOrder[i] = c

\* the run has executed cell c to its end
Completed(c) ==
    IF pc = "halted" THEN CellIndex(error.cell) > CellIndex(c)
    ELSE CellIndex(pc) > CellIndex(c)

(***************************************************************************)
(* The cells, in the order of the notebook.                                *)
(***************************************************************************)
\* !pip install shap; !pip install lime: packages that are installed stay
\* installed, missing ones are installed or, when pip fails, stay missing; a
\* failing shell command raises nothing in the notebook
PipCell ==
    /\ pc = "pip"
    /\ installed' \in IF installed THEN {TRUE} ELSE BOOLEAN
    /\ Goto("import")
    /\ UNCHANGED <<file, runVars, importVars, out, dataVars, selVars, splitVars,
                   trainVars, evalVars, auxVars, diskVars, loadVars>>

\* try: import shap, lime ... except ImportError
ImportCell ==
    /\ pc = "import"
    /\ EXPLAINABILITY_AVAILABLE' = installed
    /\ out' = IF installed THEN out ELSE out \cup {"Warning: SHAP and/or LIME libraries not installed"}
    /\ Goto("load")
    /\ UNCHANGED <<envVars, runVars, dataVars, selVars, splitVars, trainVars, evalVars,
                   auxVars, diskVars, loadVars>>

\* df = pd.read_csv(dataset_path)
LoadCell ==
    /\ pc = "load"
    /\ IF file.status = "absent" THEN Raise("FileNotFoundError") /\ UNCHANGED df
       ELSE IF file.status = "malformed" THEN Raise("ParserError") /\ UNCHANGED df
       ELSE Goto("fillna") /\ df' = file.table
    /\ UNCHANGED <<envVars, runVars, importVars, out, X, y, selVars, splitVars, trainVars,
                   evalVars, auxVars, diskVars, loadVars>>

\* df = df.fillna(0)
FillnaCell ==
    /\ pc = "fillna"
    /\ df' = FillNa(df)
    /\ Goto("classdist")
    /\ UNCHANGED <<envVars, runVars, importVars, out, X, y, selVars, splitVars, trainVars,
                   evalVars, auxVars, diskVars, loadVars>>

\* print(df['class'].value_counts())
ClassDistCell ==
    /\ pc = "classdist"
    /\ IF HasColumn(df, ClassCol) THEN Goto("drop") ELSE Raise("KeyError")
    /\ UNCHANGED <<envVars, runVars, importVars, out, dataVars, selVars, splitVars, trainVars,
                   evalVars, auxVars, diskVars, loadVars>>

\* drop the non-feature columns; X = df.drop('class', axis=1); y = df['class']
DropCell ==
    /\ pc = "drop"
    /\ LET d == DropAll(df, columns_to_drop)
       IN  /\ df' = d
           /\ X' = DropColumn(d, ClassCol)
           /\ y' = Column(d, ClassCol)
    /\ Goto("diffs")
    /\ UNCHANGED <<envVars, runVars, importVars, out, selVars, splitVars, trainVars,
                   evalVars, auxVars, diskVars, loadVars>>

\* feature_diffs, then feature_diff_df sorted by absolute relative change
DiffsCell ==
    /\ pc = "diffs"
    /\ feature_diffs' = FeatureDiffs(df, X)
    /\ feature_diff_df' \in SortValues(feature_diffs')
    /\ Goto("select")
    /\ UNCHANGED <<envVars, runVars, importVars, out, dataVars, top_features, X_selected,
                   splitVars, trainVars, evalVars, auxVars, diskVars, loadVars>>

\* top_features = feature_diff_df.head(15)['Feature'].tolist(); X_selected = X[top_features]
SelectCell ==
    /\ pc = "select"
    /\ top_features' = TopFeatures(feature_diff_df)
    /\ X_selected' = SelectColumns(X, top_features')
    /\ out' = out \cup {"Selected top features:"}
    /\ Goto("split")
    /\ UNCHANGED <<envVars, runVars, importVars, dataVars, feature_diffs, feature_diff_df,
                   splitVars, trainVars, evalVars, auxVars, diskVars, loadVars>>

\* X_train, X_test, y_train, y_test = train_test_split(...)
SplitCell ==
    /\ pc = "split"
    /\ IF SplitRaises(y)
       THEN Raise("ValueError") /\ UNCHANGED splitVars
       ELSE \E s \in {train_test_split(y)} :
               /\ X_train_index' = s.train
               /\ X_test_index' = s.test
               /\ y_test' = RowsOf(y, s.test)
               /\ Goto("train")
    /\ UNCHANGED <<envVars, runVars, importVars, out, dataVars, selVars, trainVars, evalVars,
                   auxVars, diskVars, loadVars>>

\* grid_search.fit(X_train, y_train)
TrainCell ==
    /\ pc = "train"
    /\ IF FitRaises(RowsOf(y, X_train_index))
       THEN Raise("ValueError") /\ UNCHANGED grid_search
       ELSE \E best \in BestCandidates(RowsOf(y, X_train_index)) :
               /\ grid_search' =
                      [fitted |-> TRUE, fit_rows |-> X_train_index, best_params_ |-> best,
                       best_estimator_ |-> Fitted("pipeline", best, ColumnNames(X_selected),
                                                  X_train_index)]
               /\ Goto("predict")
    /\ UNCHANGED <<envVars, runVars, importVars, out, dataVars, selVars, splitVars, best_model,
                   evalVars, auxVars, diskVars, loadVars>>

\* best_model = grid_search.best_estimator_; y_pred = best_model.predict(X_test):
\* one label per test row, the same label for rows with the same values
PredictCell ==
    /\ pc = "predict"
    /\ best_model' = grid_search.best_estimator_
    /\ y_pred' \in Predictions(X_selected, X_test_index)
    /\ Goto("metrics")
    /\ UNCHANGED <<envVars, runVars, importVars, out, dataVars, selVars, splitVars, grid_search,
                   precision, recall, auxVars, diskVars, loadVars>>

\* precision, recall, f1, _ = precision_recall_fscore_support(y_test, y_pred, average='binary')
MetricsCell ==
    /\ pc = "metrics"
    /\ precision' = Precision(y_test, y_pred)
    /\ recall' = Recall(y_test, y_pred)
    /\ out' = out \cup {"Precision:", "Recall:"}
    /\ Goto("pca")
    /\ UNCHANGED <<envVars, runVars, importVars, dataVars, selVars, splitVars, trainVars, y_pred,
                   auxVars, diskVars, loadVars>>

\* pca = PCA(n_components=2); X_pca = pca.fit_transform(X_scaled), on all rows:
\* 2 components need at least 2 columns and 2 rows
PcaCell ==
    /\ pc = "pca"
    /\ IF Min(Len(y), Len(X_selected)) < 2 THEN Raise("ValueError") ELSE Goto("svm2d")
    /\ UNCHANGED <<envVars, runVars, importVars, out, dataVars, selVars, splitVars, trainVars,
                   evalVars, auxVars, diskVars, loadVars>>

\* the gamma of svm_2d: the best one unless it is a preset
Gamma2d(best_params) ==
    IF best_params.gamma \notin {"scale", "auto"} THEN best_params.gamma ELSE "scale"

\* svm_2d = SVC(...); svm_2d.fit(X_train_pca, y_train_pca), the same split again
Svm2dCell ==
    /\ pc = "svm2d"
    /\ svm_2d' = Fitted("svc_2d",
                        [grid_search.best_params_ EXCEPT
                            !.gamma = Gamma2d(grid_search.best_params_)],
                        <<"PC1", "PC2">>, X_train_index)
    /\ Goto("timeseries")
    /\ UNCHANGED <<envVars, runVars, importVars, out, dataVars, selVars, splitVars, trainVars,
                   evalVars, linear_svm, shap_model, diskVars, loadVars>>

\* variant: the scoring of all rows fits best_model on them first (in place,
\* so that grid_search.best_estimator_, the same object, is refitted too)
TimeSeriesCellRefits ==
    /\ pc = "timeseries"
    /\ IF HasColumn(file.table, TimestampCol)
       THEN /\ best_model' = [best_model EXCEPT !.fit_rows = [i \in 1..Len(y) |-> i]]
            /\ grid_search' = [grid_search EXCEPT !.best_estimator_ = best_model']
            /\ Goto("linear")
       ELSE /\ Raise("KeyError")
            /\ UNCHANGED trainVars
    /\ UNCHANGED <<envVars, runVars, importVars, out, dataVars, selVars, splitVars,
                   evalVars, auxVars, diskVars, loadVars>>

\* full_df = pd.read_csv(dataset_path); timestamps = full_df['timestamp'];
\* all_proba = best_model.predict_proba(X_all_selected)
TimeSeriesCell ==
    /\ pc = "timeseries"
    /\ IF HasColumn(file.table, TimestampCol) THEN Goto("linear") ELSE Raise("KeyError")
    /\ UNCHANGED <<envVars, runVars, importVars, out, dataVars, selVars, splitVars, trainVars,
                   evalVars, auxVars, diskVars, loadVars>>

\* linear_svm.fit(X_train, y_train)
LinearCell ==
    /\ pc = "linear"
    /\ linear_svm' = Fitted("linear_svm", [kernel |-> "linear"],
                            ColumnNames(X_selected), X_train_index)
    /\ Goto("shap")
    /\ UNCHANGED <<envVars, runVars, importVars, out, dataVars, selVars, splitVars, trainVars,
                   evalVars, svm_2d, shap_model, diskVars, loadVars>>

\* variant: the SHAP cell without its availability check
ShapCellUnguarded ==
    /\ pc = "shap"
    /\ IF EXPLAINABILITY_AVAILABLE
       THEN /\ shap_model' = Fitted("shap_model", [kernel |-> "linear"],
                                    ColumnNames(X_selected), X_train_index)
            /\ Goto("lime")
       ELSE /\ Raise("NameError")
            /\ UNCHANGED shap_model
    /\ UNCHANGED <<envVars, runVars, importVars, out, dataVars, selVars, splitVars, trainVars,
                   evalVars, svm_2d, linear_svm, diskVars, loadVars>>

\* if EXPLAINABILITY_AVAILABLE: shap_model.fit(X_train, y_train) ... else: print(...)
ShapCell ==
    /\ pc = "shap"
    /\ IF EXPLAINABILITY_AVAILABLE
       THEN /\ shap_model' = Fitted("shap_model", [kernel |-> "linear"],
                                    ColumnNames(X_selected), X_train_index)
            /\ UNCHANGED out
       ELSE /\ out' = out \cup {"SHAP analysis skipped because libraries are not installed."}
            /\ UNCHANGED shap_model
    /\ Goto("lime")
    /\ UNCHANGED <<envVars, runVars, importVars, dataVars, selVars, splitVars, trainVars,
                   evalVars, svm_2d, linear_svm, diskVars, loadVars>>

\* if EXPLAINABILITY_AVAILABLE: explain the first test anomaly ... else: print(...)
LimeCell ==
    /\ pc = "lime"
    /\ out' = IF ~EXPLAINABILITY_AVAILABLE
              THEN out \cup {"LIME analysis skipped because libraries are not installed."}
              ELSE IF SelectIdx(y_test, 1, 1) = <<>>
              THEN out \cup {"No anomalies found in test set"}
              ELSE out
    /\ Goto("persist")
    /\ UNCHANGED <<envVars, runVars, importVars, dataVars, selVars, splitVars, trainVars,
                   evalVars, auxVars, diskVars, loadVars>>

\* a file that a failed write has left behind
Truncated == [exists |-> TRUE, format |-> "truncated"]

\* joblib.dump(best_model, ...); then DataFrame(top_features).to_csv(...).
\* Either write can fail (OSError); a failed write leaves the file as it was or
\* truncated, and the statements after it do not run.
PersistCell ==
    /\ pc = "persist"
    /\ \/ /\ disk' = [model |-> JoblibDump(best_model),
                      features |-> ToCsv(top_features, FeatureHeader)]
          /\ written' = written \cup {"model", "features"}
          /\ out' = out \cup {"Model saved", "Selected features saved"}
          /\ Goto("reload")
       \/ /\ \E left \in {disk.model, Truncated} : disk' = [disk EXCEPT !.model = left]
          /\ UNCHANGED <<written, out>>
          /\ Raise("OSError")
       \/ /\ \E left \in {disk.features, Truncated} :
                disk' = [model |-> JoblibDump(best_model), features |-> left]
          /\ written' = written \cup {"model"}
          /\ out' = out \cup {"Model saved"}
          /\ Raise("OSError")
    /\ UNCHANGED <<envVars, runVars, importVars, dataVars, selVars, splitVars, trainVars,
                   evalVars, auxVars, loadVars>>

\* loaded_model = joblib.load(...); selected_features = pd.read_csv(...)['Feature'].tolist()
ReloadCell ==
    /\ pc = "reload"
    /\ loaded_model' = JoblibLoad(disk.model)
    /\ selected_features' = ReadCsvColumn(disk.features, FeatureHeader)
    /\ out' = out \cup {"Model and feature list loaded successfully."}
    /\ Goto("done")
    /\ UNCHANGED <<envVars, runVars, importVars, dataVars, selVars, splitVars, trainVars,
                   evalVars, auxVars, diskVars>>

Next ==
    \/ PipCell \/ ImportCell \/ LoadCell \/ FillnaCell \/ ClassDistCell \/ DropCell
    \/ DiffsCell \/ SelectCell \/ SplitCell \/ TrainCell \/ PredictCell
    \/ MetricsCell \/ PcaCell \/ Svm2dCell \/ TimeSeriesCell \/ LinearCell
    \/ ShapCell \/ LimeCell \/ PersistCell \/ ReloadCell

Spec == Init /\ [][Next]_vars

(***************************************************************************)
(* The notebook up to the feature selection, on the larger set of files.   *)
(***************************************************************************)
InitSelect ==
    /\ pc = "pip"
    /\ file \in InputFiles
    /\ installed \in BOOLEAN
    /\ Fresh
    /\ FirstRun

NextSelect ==
    \/ PipCell \/ ImportCell \/ LoadCell \/ FillnaCell \/ ClassDistCell \/ DropCell
    \/ DiffsCell \/ SelectCell

SelectSpec == InitSelect /\ [][NextSelect]_vars

(***************************************************************************)
(* The notebook up to the feature selection, on the files of real cells.   *)
(***************************************************************************)
InitReal ==
    /\ pc = "pip"
    /\ file \in RealFiles
    /\ installed \in BOOLEAN
    /\ Fresh
    /\ FirstRun

RealSpec == InitReal /\ [][NextSelect]_vars

(***************************************************************************)
(* A sequence of runs: the kernel is restarted and the notebook is run     *)
(* again from its first cell, with the packages, the                       *)
(* dataset file as it is at that time and the artifact files the earlier   *)
(* runs have left on disk.  Explored: up to MaxRuns runs, on an absent     *)
(* file, a table of two feature columns and a table of more than K         *)
(* feature columns with equal relative changes among them.                 *)
(***************************************************************************)
MaxRuns == 2

RerunFiles ==
    {[status |-> "absent", table |-> <<>>]}
    \cup {[status |-> "ok",
           table |-> FileTable("word", <<TimestampCol>>, TRUE, 2, 0, 1,
                               MaxNormal, MaxAnomaly)],
          [status |-> "ok",
           table |-> FileTable("word", <<TimestampCol>>, TRUE, K + ExtraCols, 0, 1,
                               MaxNormal, MaxAnomaly)]}

\* Restart & Run All: a new session; the files on disk stay
Rerun ==
    /\ pc \in {"done", "halted"}
    /\ run < MaxRuns
    /\ run' = run + 1
    /\ pc' = "pip"
    /\ file' \in RerunFiles
    /\ error' = NoError
    /\ EXPLAINABILITY_AVAILABLE' = FALSE
    /\ out' = {}
    /\ df' = <<>> /\ X' = <<>> /\ y' = <<>>
    /\ feature_diffs' = <<>> /\ feature_diff_df' = <<>>
    /\ top_features' = <<>> /\ X_selected' = <<>>
    /\ X_train_index' = <<>> /\ X_test_index' = <<>> /\ y_test' = <<>>
    /\ grid_search' = Unfitted /\ best_model' = Unfitted
    /\ y_pred' = <<>> /\ precision' = NaN /\ recall' = NaN
    /\ svm_2d' = Unfitted /\ linear_svm' = Unfitted /\ shap_model' = Unfitted
    /\ written' = {}
    /\ loaded_model' = Unfitted /\ selected_features' = <<>>
    /\ UNCHANGED <<installed, disk>>

InitRerun ==
    /\ pc = "pip"
    /\ file \in RerunFiles
    /\ installed \in BOOLEAN
    /\ Fresh
    /\ FirstRun

NextRerun == Next \/ Rerun

RerunSpec == InitRerun /\ [][NextRerun]_vars

(***************************************************************************)
(* Vocabulary of the properties.                                           *)
(***************************************************************************)
\* the sum and the number of the values of a column on the rows with a label
SumWhere(vals, labels, c) ==
    SumSeq([i \in 1..Len(vals) |-> IF labels[i] = c THEN vals[i] ELSE 0])

CountWhere(labels, c) == Cardinality({i \in 1..Len(labels) : labels[i] = c})

\* the float64 mean of the real cells of a column on the rows with a label
\* (of which there is at least one)
RealMeanWhere(vals, labels, c) ==
    FDiv(FSum([p \in 1..CountWhere(labels, c) |-> vals[SelectIdx(labels, c, 1)[p]]]),
         FromInt(CountWhere(labels, c)))

\* every cell of a column on the rows with a label is zero: for cells that
\* are not negative, the exact mean of the group is zero
AllZeroWhere(col, labels, c) ==
    \A i \in 1..Len(labels) :
        labels[i] = c => IF col.real THEN IsZero(col.vals[i]) ELSE col.vals[i] = 0

\* |x| > |y| for two relative changes that are numbers or infinite
AbsGreater(u, w) ==
    /\ u.k # "nan" /\ w.k # "nan"
    /\ w.k = "num"
    /\ FLess(FAbs(w), FAbs(u))

(***************************************************************************)
(* C1.  Once the relative changes are computed, the change of every        *)
(* feature column is (mean_anomaly - mean_normal) / mean_normal when the   *)
(* mean over the rows labelled 0 is not zero, 0 when both means are zero,  *)
(* and infinite when the normal mean is zero and the anomaly mean is not.  *)
(* The means are sums over the rows labelled 0 and 1 divided by their      *)
(* numbers; with no row labelled 1 the anomaly mean counts as 0, and with  *)
(* no row labelled 0 the normal mean, and with it the change, is NaN.      *)
(* Means, difference and quotient are float64 operations, each rounded;    *)
(* the change is positive exactly when the anomaly mean is the larger one  *)
(* and zero exactly when the two means are equal.                          *)
(***************************************************************************)
RelativeShiftAsSpecified ==
    Completed("diffs") =>
        /\ Len(feature_diffs) = Len(X)
        /\ \A i \in 1..Len(X) :
              LET d == feature_diffs[i].Change
                  nN == CountWhere(y, 0)
                  sN == SumWhere(X[i].vals, y, 0)
                  nA == IF CountWhere(y, 1) = 0 THEN 1 ELSE CountWhere(y, 1)
                  sA == SumWhere(X[i].vals, y, 1)
                  mN == FDiv(FromInt(sN), FromInt(nN))
                  mA == FDiv(FromInt(sA), FromInt(nA))
              IN  /\ feature_diffs[i].Feature = X[i].name
                  /\ nN = 0 => d.k = "nan"
                  /\ nN > 0 /\ sN # 0 =>
                        /\ d.k = "num"
                        /\ d = FDiv(FSub(mA, mN), mN)
                        /\ d.s > 0 <=> sA * nN > sN * nA
                        /\ d.s = 0 <=> sA * nN = sN * nA
                  /\ nN > 0 /\ sN = 0 /\ sA = 0 => d.k = "num" /\ d.s = 0
                  /\ nN > 0 /\ sN = 0 /\ sA # 0 => d.k = "inf" /\ d.s = 1

\* a table with both groups of rows, a column with an infinite change and a
\* column with a finite positive one
RelativeShiftWitness ==
    /\ Completed("diffs")
    /\ CountWhere(y, 0) > 0 /\ CountWhere(y, 1) > 0
    /\ \E i \in 1..Len(feature_diffs) : feature_diffs[i].Change.k = "inf"
    /\ \E i \in 1..Len(feature_diffs) :
          feature_diffs[i].Change.k = "num" /\ feature_diffs[i].Change.s > 0
                                            /\ feature_diffs[i].Change.lo % 2 = 1

(***************************************************************************)
(* C2.  The ranking holds every feature once, a feature with the larger    *)
(* absolute relative change comes first (an infinite change before every   *)
(* finite one, a change of 1 before a change of 0), and the selected       *)
(* features are the first K = 15 names of the ranking, in its order.       *)
(***************************************************************************)
RankedByAbsoluteShift ==
    Completed("select") =>
        /\ Len(feature_diff_df) = Len(feature_diffs)
        /\ \A i \in 1..Len(feature_diffs) :
              \E p \in 1..Len(feature_diff_df) : feature_diff_df[p] = feature_diffs[i]
        /\ \A p, q \in 1..Len(feature_diff_df) :
              AbsGreater(feature_diff_df[p].Change, feature_diff_df[q].Change) => p < q
        /\ Len(top_features) <= K
        /\ \A p \in 1..Len(top_features) :
              top_features[p] = PyStr(feature_diff_df[p].Feature)
        /\ \A a, b \in 1..Len(feature_diffs) :
              /\ AbsGreater(feature_diffs[a].Change, feature_diffs[b].Change)
              /\ PyStr(feature_diffs[b].Feature) \in Range(top_features)
              => PyStr(feature_diffs[a].Feature) \in Range(top_features)

\* more than K features, ranked in another order than that of the columns, one
\* of them with an infinite change, and a feature cut off by the truncation
RankedWitness ==
    /\ Completed("select")
    /\ Len(feature_diffs) > K
    /\ Len(top_features) = K
    /\ feature_diff_df # feature_diffs
    /\ \E p \in 1..Len(feature_diff_df) : feature_diff_df[p].Change.k = "inf"
    /\ \E p \in 1..Len(feature_diff_df) :
          /\ feature_diff_df[p].Change.k = "num"
          /\ PyStr(feature_diff_df[p].Feature) \notin Range(top_features)

(***************************************************************************)
(* C3.  With no row labelled 1 in the table, the feature selection ends    *)
(* in an error and produces no list of selected features.                  *)
(***************************************************************************)
EmptyAnomalySubsetIsAnError ==
    Completed("drop") /\ CountWhere(y, 1) = 0 =>
        \/ pc \in {"diffs", "select"}
        \/ pc = "halted" /\ error.cell \in {"diffs", "select"}

(***************************************************************************)
(* C4.  The training and the test rows are disjoint and cover the table,   *)
(* and the grid search and the estimator it returns are fitted on exactly  *)
(* the training rows of the split as it still stands: on no test row.      *)
(***************************************************************************)
TestSplitUnseenBySearch ==
    /\ Completed("split") =>
          /\ Range(X_train_index) \cap Range(X_test_index) = {}
          /\ Range(X_train_index) \cup Range(X_test_index) = 1..Len(y)
    /\ Completed("train") =>
          /\ grid_search.fitted
          /\ grid_search.fit_rows = X_train_index
          /\ Range(grid_search.fit_rows) \cap Range(X_test_index) = {}
          /\ Range(grid_search.best_estimator_.fit_rows) \cap Range(X_test_index) = {}
    /\ Completed("predict") => Range(best_model.fit_rows) \cap Range(X_test_index) = {}

\* the search has finished on a split with test rows of both classes
TestSplitWitness ==
    /\ pc = "metrics"
    /\ best_model.fitted
    /\ Range(y_test) = {0, 1}
    /\ Len(X_train_index) > Len(X_test_index)
    /\ X_train_index # SortedSeq(Range(X_train_index))

(***************************************************************************)
(* C5.  After the artifacts are written and read back, the reloaded list   *)
(* of feature names equals top_features element for element, the reloaded  *)
(* model is the model in memory, and the reloaded pair predicts on every   *)
(* row what the model in memory predicts on the selected columns: predict  *)
(* is a function of the model and of the table it is given, and the        *)
(* reloaded names select from X the table X_selected.                      *)
(***************************************************************************)
SamePyList(l1, l2) ==
    /\ Len(l1) = Len(l2)
    /\ \A i \in 1..Len(l1) : l1[i].t = l2[i].t /\ l1[i].v = l2[i].v

RoundTripReproducesPredictions ==
    pc = "done" =>
        /\ SamePyList(selected_features, top_features)
        /\ loaded_model = best_model
        /\ HasKeys(X, selected_features)
        /\ SelectColumns(X, selected_features) = X_selected

(***************************************************************************)
(* C6.  On a table with rows of both labels the relative change of a       *)
(* column is a finite number unless the mean of the column over the rows   *)
(* labelled 0 is zero (as a real number, or as the float64 the notebook    *)
(* computes) and its mean over the rows labelled 1 is not.                 *)
(***************************************************************************)
ShiftFiniteUnlessZeroNormalMean ==
    Completed("diffs") /\ CountWhere(y, 0) > 0 /\ CountWhere(y, 1) > 0 =>
        \A i \in 1..Len(feature_diffs) :
            \/ feature_diffs[i].Change.k = "num"
            \/ /\ ~AllZeroWhere(X[i], y, 1)
               /\ \/ AllZeroWhere(X[i], y, 0)
                  \/ (X[i].real /\ IsZero(RealMeanWhere(X[i].vals, y, 0)))

(***************************************************************************)
(* C7.  The selection raises no error and returns min(K, number of feature *)
(* columns) names, none of them twice: all the columns when there are      *)
(* fewer than K = 15.                                                      *)
(***************************************************************************)
SelectionCapsAtAvailable ==
    /\ pc = "halted" => error.cell \notin {"diffs", "select"}
    /\ Completed("select") =>
          /\ Len(top_features) = Min(K, Len(X))
          /\ \A p, q \in 1..Len(top_features) :
                top_features[p] = top_features[q] => p = q
          /\ ColumnNames(X_selected) = [p \in 1..Len(top_features) |-> top_features[p].v]

\* fewer columns than K, all of them selected
SelectionCapsWitness ==
    /\ Completed("select")
    /\ Len(X) > 1 /\ Len(X) < K
    /\ Len(top_features) = Len(X)

(***************************************************************************)
(* C8.  Without the explainability libraries the SHAP and the LIME cell    *)
(* each print that they are skipped and fit nothing, neither halts the     *)
(* run, and a run that gets through the persister has written both         *)
(* artifacts: the estimator the search returned and the selected names,    *)
(* whatever the availability of the libraries.                             *)
(***************************************************************************)
ExplainabilitySkippedNotFatal ==
    /\ ~installed /\ Completed("import") =>
          /\ ~EXPLAINABILITY_AVAILABLE
          /\ "Warning: SHAP and/or LIME libraries not installed" \in out
    /\ ~installed /\ Completed("shap") =>
          /\ "SHAP analysis skipped because libraries are not installed." \in out
          /\ shap_model = Unfitted
    /\ ~installed /\ Completed("lime") =>
          "LIME analysis skipped because libraries are not installed." \in out
    /\ ~installed /\ error # NoError => error.cell \notin {"shap", "lime"}
    /\ Completed("persist") =>
          /\ written = {"model", "features"}
          /\ disk.model = JoblibDump(grid_search.best_estimator_)
          /\ disk.features = ToCsv(top_features, FeatureHeader)

\* a run without the libraries that has written both artifacts
ExplainabilitySkippedWitness ==
    /\ ~installed
    /\ pc = "done"
    /\ written = {"model", "features"}
    /\ shap_model = Unfitted

(***************************************************************************)
(* C9.  A failure ends the run: after an exception the run is halted and   *)
(* no cell can run any more (no later stage, no retry); what the later     *)
(* cells compute is still unset; and a failure before the persister        *)
(* leaves both artifact files unwritten.  An absent or malformed file      *)
(* fails the loader, a missing class column the class count, training      *)
(* rows of a single class the search.                                      *)
(***************************************************************************)
FailureIsTerminal ==
    /\ error # NoError =>
          /\ pc = "halted"
          /\ ~ENABLED Next
          /\ loaded_model = Unfitted /\ selected_features = <<>>
          /\ error.cell # "persist" =>
                written = {} /\ disk = [model |-> NoFile, features |-> NoFile]
          /\ CellIndex(error.cell) <= CellIndex("train") =>
                grid_search = Unfitted /\ best_model = Unfitted /\ y_pred = <<>>
          /\ CellIndex(error.cell) <= CellIndex("split") => X_train_index = <<>>
          /\ CellIndex(error.cell) <= CellIndex("classdist") =>
                feature_diffs = <<>> /\ top_features = <<>>
    /\ file.status # "ok" /\ Completed("load") => error.cell = "load"
    /\ file.status = "ok" /\ ~HasColumn(file.table, ClassCol) /\ Completed("classdist") =>
          error.cell = "classdist"
    /\ Completed("split") /\ Cardinality(Range(RowsOf(y, X_train_index))) < 2
          /\ Completed("train") => error.cell = "train"

\* a run halted by the search on training rows of a single class
FailureWitness ==
    /\ pc = "halted"
    /\ error = [type |-> "ValueError", cell |-> "train"]
    /\ Cardinality(Range(RowsOf(y, X_train_index))) = 1
    /\ top_features # <<>>

(***************************************************************************)
(* The evaluator never sees held-out labels without an anomaly: the        *)
(* stratified split raises or leaves a row labelled 1 in the test part,    *)
(* and on a table of one class the grid search raises, so that a run that  *)
(* gets past the grid search has an anomaly row in its test split.         *)
(***************************************************************************)
TestSplitHoldsAnomaly ==
    Completed("train") => CountWhere(y_test, 1) > 0

(***************************************************************************)
(* C11.  The model file holds the pipeline the grid search chose, as it    *)
(* was when the search finished: from the end of the search on, the best   *)
(* estimator is the pipeline fitted on the training rows of the selected   *)
(* columns with the best parameters of the grid; best_model is that        *)
(* estimator; the steps up to the persister leave it alone; and the file   *)
(* the persister writes holds it, never the 2-D model.                     *)
(***************************************************************************)
PersistedModelIsSearchResult ==
    /\ Completed("train") =>
          /\ grid_search.best_params_ \in param_grid
          /\ grid_search.best_estimator_ =
                 Fitted("pipeline", grid_search.best_params_,
                        ColumnNames(X_selected), X_train_index)
    /\ Completed("predict") => best_model = grid_search.best_estimator_
    /\ "model" \in written =>
          /\ disk.model = JoblibDump(grid_search.best_estimator_)
          /\ disk.model.payload.what = "pipeline"
          /\ disk.model.payload # svm_2d

\* a completed run with the libraries: every step between the search and the
\* persister has acted, the 2-D model exists, the model file is written
PersistedModelWitness ==
    /\ pc = "done"
    /\ "model" \in written
    /\ svm_2d.fitted /\ linear_svm.fitted /\ shap_model.fitted
    /\ precision.k = "num"
    /\ svm_2d.what = "svc_2d" /\ svm_2d.fit_rows = disk.model.payload.fit_rows

(***************************************************************************)
(* C12.  The feature-list file the persister has written is a CSV file of  *)
(* one column: the header line Feature, then one line per selected         *)
(* feature holding its name, in the order of the ranking (the first K      *)
(* rows of the sorted table); and these names, in this order, are the      *)
(* columns of the matrix the model in the model file was fitted on.        *)
(***************************************************************************)
FeatureListMatchesModelColumns ==
    "features" \in written =>
        LET lines == disk.features.lines
            names == Tail(lines)
            ranked == HeadRows(feature_diff_df, K)
        IN  /\ disk.features.format = "csv"
            /\ Head(lines) = FeatureHeader
            /\ \A i \in 1..Len(lines) : \A c \in 1..Len(lines[i]) : lines[i][c] # ","
            /\ Len(names) = Len(ranked)
            /\ \A i \in 1..Len(names) : names[i] = ranked[i].Feature
            /\ "model" \in written
            /\ names = disk.model.payload.feature_names_in
            /\ names = ColumnNames(X_selected)

\* both artifacts written from a table with more than K feature columns,
\* whose ranking is not the order of the columns in the table
FeatureListWitness ==
    /\ written = {"model", "features"}
    /\ Len(X) > K
    /\ Len(Tail(disk.features.lines)) = K
    /\ Tail(disk.features.lines) # [i \in 1..K |-> X[i].name]

(***************************************************************************)
(* C14.  After any sequence of runs, when both artifact files exist on     *)
(* disk (each one written to its end, a file that a failed write has cut   *)
(* short set aside), they are the model and the feature list of one and    *)
(* the same run: the names in the feature-list file are the columns the    *)
(* model in the model file was fitted on, in the same order.               *)
(***************************************************************************)
ArtifactsFromSameRun ==
    /\ disk.model.exists /\ disk.features.exists
    /\ disk.model.format = "joblib" /\ disk.features.format = "csv"
    => /\ Head(disk.features.lines) = FeatureHeader
       /\ Tail(disk.features.lines) = disk.model.payload.feature_names_in

====
